---- MODULE Spec2Model ----
(***************************************************************************)
(* A model of NumCosmo's NcmModel (numcosmo/math/ncm_model.c): the        *)
(* per-type parameter schema (NcmModelClass), the instances built from it  *)
(* and their reparametrization.                                            *)
(*                                                                         *)
(* Spec      the class_init phase of a two-level type hierarchy            *)
(*           (NcmModel <- base <- child) followed by the construction of   *)
(*           one instance.                                                 *)
(* SpecInst  two constructed instances and the reparametrizations that     *)
(*           callers attach to and detach from them.                       *)
(* SpecAgain, SpecUse, SpecNames                                           *)
(*           repeated class registration, parameter access on a built      *)
(*           instance, and the name index.                                 *)
(* SpecProp  GObject property dispatch (_ncm_model_set_property and        *)
(*           _ncm_model_get_property) on a built instance.                 *)
(* SpecMat   NcmMatrix (numcosmo/math/ncm_matrix.c): matrices, their       *)
(*           views and ncm_matrix_set_from_variant.                        *)
(* SpecFit   ncm_fit_state_set_ls (numcosmo/math/ncm_fit_state.h).         *)
(*                                                                         *)
(* guint values are 32 bits wide.  TLC's integers are 32-bit signed, so a  *)
(* guint u is held as the integer r congruent to u modulo 2^32 with        *)
(* -2^31 <= r < 2^31 (its two's-complement reading): + and - are then the  *)
(* machine's, and the unsigned comparison is ULess below.                  *)
(***************************************************************************)
EXTENDS Integers, Sequences, FiniteSets, TLC

VARIABLES
  cls,      \* cls[L]: the NcmModelClass struct of level L (1 = base, 2 = child)
  props,    \* props[L]: the properties installed with owner type L
  arrs,     \* heap of GPtrArray: arrs[a] is a sequence of object pointers, 0 = NULL
  sobj,     \* heap of NcmSParam objects, a pointer is an index, 0 = NULL
  vobj,     \* heap of NcmVParam objects
  cpc,      \* cpc[L]: how far level L's class_init has run
  declared, \* declared[L]: the deltas level L passed to add_params
  model,    \* the instance built from the schema, NoModel before
  err,      \* the fatal error that ended the process, NoErr while it runs
  inst,     \* SpecInst: inst[m] is NcmModel instance m
  vec,      \* SpecInst: heap of NcmVector
  rep,      \* SpecInst: heap of NcmReparam
  held,     \* SpecInst: held[r]: references to reparam r owned by callers
  last,     \* SpecInst: the last call made and what it was given
  mat,      \* SpecMat: heap of NcmMatrix objects and of the vectors that view them
  fstate    \* SpecFit: the NcmFitState

vars == <<cls, props, arrs, sobj, vobj, cpc, declared, model, err,
          inst, vec, rep, held, last, mat, fstate>>
classVars == <<cls, props, arrs, sobj, vobj, cpc, declared, model>>
instVars == <<inst, vec, rep, held, last>>
numVars == <<mat, fstate>>

(***************************************************************************)
(* Bounds.  MaxSlots caps the scalar and vector slots a type may hold,     *)
(* inherited ones included.                                                *)
(***************************************************************************)
MaxSlots == 2
NonparamChoices == {0, 1, 2}
LenChoices == {1}

Levels == 1 .. 2
NoErr == [kind |-> "none", level |-> 0, index |-> 0]
NoModel == [type |-> 0]
ParamFree == "FREE"
ParamFixed == "FIXED"

\* What a class_init passes to set_sparam / set_vparam.
SParamInputs ==
  { [name |-> <<"p0">>, def |-> 2, ppt |-> ParamFree],
    [name |-> <<"p1">>, def |-> 5, ppt |-> ParamFixed] }
VParamInputs ==
  { [len |-> 2, name |-> <<"v0">>, def |-> 1, ppt |-> ParamFree],
    [len |-> 0, name |-> <<"v1">>, def |-> 3, ppt |-> ParamFixed] }
NewDefaults == {7}

\* The unsigned comparison a < b of two guint held as two's-complement residues.
ULess(a, b) == IF (a < 0) = (b < 0) THEN a < b ELSE a >= 0

RECURSIVE SumSeq(_)
SumSeq(s) == IF s = << >> THEN 0 ELSE Head(s) + SumSeq(Tail(s))

(***************************************************************************)
(* The class struct.                                                       *)
(***************************************************************************)
\* ncm_model_class_init: the fields of the root NcmModel class.
RootClass ==
  [ sparam_len |-> 0, vparam_len |-> 0,
    parent_sparam_len |-> 0, parent_vparam_len |-> 0,
    nonparam_prop_len |-> 0,
    sparam |-> 0, vparam |-> 0,
    object_property |-> "model",   \* object_class->set_property / get_property
    class_property |-> FALSE ]     \* klass->set_property / get_property non-NULL

SArr(c) == IF c.sparam = 0 THEN << >> ELSE arrs[c.sparam]
VArr(c) == IF c.vparam = 0 THEN << >> ELSE arrs[c.vparam]
OwnS(c) == c.sparam_len - c.parent_sparam_len
OwnV(c) == c.vparam_len - c.parent_vparam_len

Done == {"closed", "unclosed"}
Running == err = NoErr
\* The types are set up before the instance is built, and a class_init that
\* has taken over the GObject property handlers goes on to its end.
Setup(L) == Running /\ model = NoModel /\ cpc[L] = "added"


(***************************************************************************)
(* Property ids.                                                           *)
(***************************************************************************)
\* ncm_model_class_set_sparam: prop_id and prop_fit_id.
SParamPropId(c, sparam_id) ==
  sparam_id - c.parent_sparam_len + c.nonparam_prop_len

\* A fit id that steps over one own vector region, not two.
SParamPropFitIdOneRegion(c, sparam_id) ==
  SParamPropId(c, sparam_id) + (c.sparam_len - c.parent_sparam_len)
    + (c.vparam_len - c.parent_vparam_len)

SParamPropFitId(c, sparam_id) ==
  SParamPropId(c, sparam_id) + (c.sparam_len - c.parent_sparam_len)
    + 2 * (c.vparam_len - c.parent_vparam_len)

\* ncm_model_class_set_vparam: prop_id, prop_len_id and prop_fit_id.
VParamPropId(c, vparam_id) ==
  vparam_id + c.nonparam_prop_len - c.parent_vparam_len
    + (c.sparam_len - c.parent_sparam_len)

\* A length id that steps over the own scalars, not the own vectors.
VParamPropLenIdByScalars(c, vparam_id) ==
  VParamPropId(c, vparam_id) + (c.sparam_len - c.parent_sparam_len)

VParamPropLenId(c, vparam_id) ==
  VParamPropId(c, vparam_id) + (c.vparam_len - c.parent_vparam_len)

VParamPropFitId(c, vparam_id) ==
  VParamPropLenId(c, vparam_id) + (c.vparam_len - c.parent_vparam_len)
    + (c.sparam_len - c.parent_sparam_len)

\* The branch _ncm_model_class_get_property takes for prop_id at the class c
\* that owns the property, and the index it hands to the accessor.
GetPropertyBranch(c, prop_id) ==
  LET sparam_id == prop_id - c.nonparam_prop_len + c.parent_sparam_len
      vparam_id == sparam_id - c.sparam_len + c.parent_vparam_len
      vparam_len_id == vparam_id - c.vparam_len + c.parent_vparam_len
      sparam_fit_id == vparam_len_id - c.vparam_len + c.parent_sparam_len
      vparam_fit_id == sparam_fit_id - c.sparam_len + c.parent_vparam_len
  IN  IF ULess(prop_id, c.nonparam_prop_len) /\ c.class_property
        THEN [kind |-> "nonparam", index |-> prop_id]
      ELSE IF ULess(sparam_id, c.sparam_len)
        THEN [kind |-> "sparam", index |-> sparam_id]
      ELSE IF ULess(vparam_id, c.vparam_len)
        THEN [kind |-> "vparam", index |-> vparam_id]
      ELSE IF ULess(vparam_len_id, c.vparam_len)
        THEN [kind |-> "vparam_len", index |-> vparam_len_id]
      ELSE IF ULess(sparam_fit_id, c.sparam_len)
        THEN [kind |-> "sparam_fit", index |-> sparam_fit_id]
      ELSE IF ULess(vparam_fit_id, c.vparam_len)
        THEN [kind |-> "vparam_fit", index |-> vparam_fit_id]
      ELSE [kind |-> "not_reached", index |-> 0]

\* The same walk in _ncm_model_class_set_property.
SetPropertyBranch(c, prop_id) ==
  LET sparam_id == prop_id - c.nonparam_prop_len + c.parent_sparam_len
      vparam_id == sparam_id - c.sparam_len + c.parent_vparam_len
      vparam_len_id == vparam_id - c.vparam_len + c.parent_vparam_len
      sparam_fit_id == vparam_len_id - c.vparam_len + c.parent_sparam_len
      vparam_fit_id == sparam_fit_id - c.sparam_len + c.parent_vparam_len
  IN  IF ULess(prop_id, c.nonparam_prop_len) /\ c.class_property
        THEN [kind |-> "nonparam", index |-> prop_id]
      ELSE IF ULess(sparam_id, c.sparam_len)
        THEN [kind |-> "sparam", index |-> sparam_id]
      ELSE IF ULess(vparam_id, c.vparam_len)
        THEN [kind |-> "vparam", index |-> vparam_id]
      ELSE IF ULess(vparam_len_id, c.vparam_len)
        THEN [kind |-> "vparam_len", index |-> vparam_len_id]
      ELSE IF ULess(sparam_fit_id, c.sparam_len)
        THEN [kind |-> "sparam_fit", index |-> sparam_fit_id]
      ELSE IF ULess(vparam_fit_id, c.vparam_len)
        THEN [kind |-> "vparam_fit", index |-> vparam_fit_id]
      ELSE [kind |-> "not_reached", index |-> 0]

(***************************************************************************)
(* class_init: add_params, set_sparam, set_vparam, check_params_info.      *)
(***************************************************************************)
\* g_error / g_assert / a fault: the process ends, nothing else changes.
Abort(kind, level, index) ==
  /\ err' = [kind |-> kind, level |-> level, index |-> index]
  /\ UNCHANGED <<classVars, instVars, numVars>>

\* A length assigned, not added to the inherited one.
AddParamsLenAssigned(len, delta) == delta

\* add_params: model_class->sparam_len += sparam_len (and vparam_len).
AddParamsLen(len, delta) == len + delta

\* Slots that share the parent's descriptors.
AddParamsSlotsShared(old, parent_len, len, first) ==
  [i \in 1 .. len |-> IF i <= parent_len THEN old[i] ELSE 0]

\* The slots add_params gives the new array: the copy of each slot of the
\* parent's array old, then NULL.  first is the pointer the first copy gets.
AddParamsSlots(old, parent_len, len, first) ==
  [i \in 1 .. len |-> IF i <= parent_len THEN first + i - 1 ELSE 0]

\* ncm_sparam_copy / ncm_vparam_copy of every slot of an array: new objects.
CopiesOf(heap, arr) == [i \in 1 .. Len(arr) |-> heap[arr[i]]]

\* ncm_model_class_add_params, whatever the class holds when it is called.
AddParamsCall(L, sparam_len, vparam_len, nonparam_prop_len) ==
  /\ Running
  /\ model = NoModel
  /\ cls[L].sparam_len + sparam_len + cls[L].vparam_len + vparam_len <= MaxSlots
  /\ LET c == cls[L]
         S == AddParamsLen(c.sparam_len, sparam_len)
         V == AddParamsLen(c.vparam_len, vparam_len)
         newS == S > 0
         newV == V > 0
         sid == Len(arrs) + 1
         vid == IF newS THEN Len(arrs) + 2 ELSE Len(arrs) + 1
         copyS == newS /\ c.sparam # 0
         copyV == newV /\ c.vparam # 0
         sslots == AddParamsSlots(SArr(c), IF copyS THEN c.sparam_len ELSE 0, S, Len(sobj) + 1)
         vslots == AddParamsSlots(VArr(c), IF copyV THEN c.vparam_len ELSE 0, V, Len(vobj) + 1)
     IN  IF copyS /\ \E i \in 1 .. c.sparam_len : SArr(c)[i] = 0
           THEN Abort("null_sparam_copy", L, 0)
         ELSE IF copyV /\ \E i \in 1 .. c.vparam_len : VArr(c)[i] = 0
           THEN Abort("null_vparam_copy", L, 0)
         ELSE
           /\ cls' = [cls EXCEPT ![L] =
                        [c EXCEPT !.object_property = "class",
                                  !.parent_sparam_len = c.sparam_len,
                                  !.parent_vparam_len = c.vparam_len,
                                  !.sparam_len = S,
                                  !.vparam_len = V,
                                  !.nonparam_prop_len = nonparam_prop_len,
                                  !.sparam = IF newS THEN sid ELSE c.sparam,
                                  !.vparam = IF newV THEN vid ELSE c.vparam]]
           /\ arrs' = arrs \o (IF newS THEN <<sslots>> ELSE << >>)
                           \o (IF newV THEN <<vslots>> ELSE << >>)
           /\ sobj' = IF copyS THEN sobj \o CopiesOf(sobj, SArr(c)) ELSE sobj
           /\ vobj' = IF copyV THEN vobj \o CopiesOf(vobj, VArr(c)) ELSE vobj
           /\ cpc' = [cpc EXCEPT ![L] = "added"]
           /\ declared' = [declared EXCEPT ![L] = [s |-> sparam_len, v |-> vparam_len]]
           /\ UNCHANGED <<props, model, err, instVars, numVars>>

\* A class_init calls add_params once, first.
AddParams(L, sparam_len, vparam_len, nonparam_prop_len) ==
  /\ cpc[L] = "init"
  /\ AddParamsCall(L, sparam_len, vparam_len, nonparam_prop_len)

\* A class_init that calls add_params once more, after its first call (as
\* long as the array heap is small).
AddParamsAgain(L, sparam_len, vparam_len, nonparam_prop_len) ==
  /\ cpc[L] = "added"
  /\ Len(arrs) <= MaxSlots
  /\ AddParamsCall(L, sparam_len, vparam_len, nonparam_prop_len)

\* No test of the slot.
AlreadySetUntested(slot) == FALSE

\* set_sparam / set_vparam: the slot already holds a descriptor.
AlreadySet(slot) == slot # 0

\* ncm_model_class_set_sparam.
SetSParam(L, sparam_id, in) ==
  /\ Setup(L)
  /\ cls[L].object_property = "class"
  /\ sparam_id \in 0 .. cls[L].sparam_len - 1
  /\ LET c == cls[L]
         prop_id == SParamPropId(c, sparam_id)
         prop_fit_id == SParamPropFitId(c, sparam_id)
     IN  IF prop_id = 0
           THEN Abort("assert_prop_id", L, sparam_id)
         ELSE IF AlreadySet(SArr(c)[sparam_id + 1])
           THEN Abort("sparam_already_set", L, sparam_id)
         ELSE
           /\ sobj' = Append(sobj, in)
           /\ arrs' = [arrs EXCEPT ![c.sparam][sparam_id + 1] = Len(sobj) + 1]
           /\ props' = [props EXCEPT ![L] = @ \cup
                 { [id |-> prop_id, kind |-> "sparam", index |-> sparam_id],
                   [id |-> prop_fit_id, kind |-> "sparam_fit", index |-> sparam_id] }]
           /\ UNCHANGED <<cls, vobj, cpc, declared, model, err, instVars, numVars>>

\* ncm_model_class_set_vparam.
SetVParam(L, vparam_id, in) ==
  /\ Setup(L)
  /\ cls[L].object_property = "class"
  /\ vparam_id \in 0 .. cls[L].vparam_len - 1
  /\ LET c == cls[L]
         prop_id == VParamPropId(c, vparam_id)
         prop_len_id == VParamPropLenId(c, vparam_id)
         prop_fit_id == VParamPropFitId(c, vparam_id)
     IN  IF prop_id = 0 \/ prop_len_id = 0
           THEN Abort("assert_prop_id", L, vparam_id)
         ELSE IF AlreadySet(VArr(c)[vparam_id + 1])
           THEN Abort("vparam_already_set", L, vparam_id)
         ELSE
           /\ vobj' = Append(vobj, in)
           /\ arrs' = [arrs EXCEPT ![c.vparam][vparam_id + 1] = Len(vobj) + 1]
           /\ props' = [props EXCEPT ![L] = @ \cup
                 { [id |-> prop_id, kind |-> "vparam", index |-> vparam_id],
                   [id |-> prop_len_id, kind |-> "vparam_len", index |-> vparam_id],
                   [id |-> prop_fit_id, kind |-> "vparam_fit", index |-> vparam_id] }]
           /\ UNCHANGED <<cls, sobj, cpc, declared, model, err, instVars, numVars>>

\* A check that leaves the vector slots out.
CheckParamsInfoErrorScalarsOnly(c, sparam, vparam) ==
  IF c.sparam_len + c.vparam_len = 0 /\ c.nonparam_prop_len = 0
    THEN "check_not_initialized"
  ELSE IF \E i \in 1 .. c.sparam_len : sparam[i] = 0
    THEN "check_sparam_null"
  ELSE IF c.object_property # "class"
    THEN "check_object_property"
  ELSE "none"

\* The first fatal error of ncm_model_class_check_params_info, "none" if it returns.
CheckParamsInfoError(c, sparam, vparam) ==
  IF c.sparam_len + c.vparam_len = 0 /\ c.nonparam_prop_len = 0
    THEN "check_not_initialized"
  ELSE IF \E i \in 1 .. c.sparam_len : sparam[i] = 0
    THEN "check_sparam_null"
  ELSE IF \E i \in 1 .. c.vparam_len : vparam[i] = 0
    THEN "check_vparam_null"
  ELSE IF c.object_property # "class"
    THEN "check_object_property"
  ELSE "none"

\* ncm_model_class_check_params_info, the last call of a class_init.
CheckParamsInfo(L) ==
  /\ Setup(L)
  /\ LET e == CheckParamsInfoError(cls[L], SArr(cls[L]), VArr(cls[L]))
     IN  IF e # "none"
           THEN Abort(e, L, 0)
           ELSE /\ cpc' = [cpc EXCEPT ![L] = "closed"]
                /\ UNCHANGED <<cls, props, arrs, sobj, vobj, declared, model, err, instVars, numVars>>

\* A class_init that returns without calling check_params_info.
ClassInitReturn(L) ==
  /\ Setup(L)
  /\ cpc' = [cpc EXCEPT ![L] = "unclosed"]
  /\ UNCHANGED <<cls, props, arrs, sobj, vobj, declared, model, err, instVars, numVars>>

\* A class_init that sets object_class->set_property / get_property itself,
\* which check_params_info looks for.
ObjectClassOverride(L) ==
  /\ Setup(L)
  /\ cls[L].object_property = "class"
  /\ cls' = [cls EXCEPT ![L].object_property = "custom"]
  /\ UNCHANGED <<props, arrs, sobj, vobj, cpc, declared, model, err, instVars, numVars>>

\* A class_init that changes the default of a descriptor it inherited, through
\* the pointer its own array holds.
ClassSParamSetDefaultValue(L, i, v) ==
  /\ Setup(L)
  /\ cls[L].object_property = "class"
  /\ i \in 1 .. cls[L].parent_sparam_len
  /\ SArr(cls[L])[i] # 0
  /\ sobj[SArr(cls[L])[i]].def # v
  /\ sobj' = [sobj EXCEPT ![SArr(cls[L])[i]].def = v]
  /\ UNCHANGED <<cls, props, arrs, vobj, cpc, declared, model, err, instVars, numVars>>

\* The child type's class struct starts as a copy of its parent's, made once
\* the parent's class_init has checked its schema and returned; its own
\* properties start empty.
ClassDerive ==
  /\ Running
  /\ model = NoModel
  /\ cpc[1] = "closed"
  /\ cpc[2] = "uninit"
  /\ cls' = [cls EXCEPT ![2] = cls[1]]
  /\ cpc' = [cpc EXCEPT ![2] = "init"]
  /\ UNCHANGED <<props, arrs, sobj, vobj, declared, model, err, instVars, numVars>>

(***************************************************************************)
(* Construction of an instance: ncm_model_init, the construct-only length  *)
(* properties, _ncm_model_constructed.                                     *)
(***************************************************************************)
\* The value the "<name>-length" property pr of owner level A is set to at
\* construction: the one the caller gives, else the pspec's default_length.
LengthGiven(A, pr, lens) ==
  IF lens[pr.index + 1] >= 0 THEN lens[pr.index + 1]
  ELSE vobj[VArr(cls[A])[pr.index + 1]].len

\* The length properties an instance of level L is constructed with, each with
\* the slot _ncm_model_class_set_property writes it to.
LengthWrites(L, lens) ==
  { [branch |-> SetPropertyBranch(cls[A], pr.id), from |-> pr.index,
     value |-> LengthGiven(A, pr, lens)] :
      <<A, pr>> \in { x \in (1 .. L) \X UNION {props[B] : B \in 1 .. L} :
                        x[2] \in props[x[1]] /\ x[2].kind = "vparam_len" } }

\* model->vparam_len after ncm_model_init (zeros) and the length properties.
InitVParamLen(L, lens) ==
  LET W == LengthWrites(L, lens)
  IN  [k \in 1 .. cls[L].vparam_len |->
         LET Wk == {w \in W : w.branch.index = k - 1}
         IN  IF Wk = {} THEN 0
             ELSE (CHOOSE w \in Wk : \A u \in Wk : u.from <= w.from).value]

\* _ncm_model_constructed: vparam_pos and total_len.
VParamPos(sparam_len, vparam_len) ==
  [k \in 1 .. Len(vparam_len) |-> sparam_len + SumSeq(SubSeq(vparam_len, 1, k - 1))]

\* A total that leaves the vector parameters out.
TotalLenScalarsOnly(sparam_len, vparam_len) == sparam_len

TotalLen(sparam_len, vparam_len) == sparam_len + SumSeq(vparam_len)

\* Component j of a vector parameter expanded to its own descriptor.
VParamComponent(vp, j) == [name |-> vp.name \o <<j>>, def |-> vp.def, ppt |-> vp.ppt]

\* _ncm_model_set_sparams: the descriptor of every slot.
SetSParamsDescs(c, total_len, vparam_len, vparam_pos) ==
  [n \in 1 .. total_len |->
     IF n <= c.sparam_len THEN sobj[SArr(c)[n]]
     ELSE LET k == CHOOSE k \in 1 .. c.vparam_len :
                     /\ vparam_pos[k] < n
                     /\ n <= vparam_pos[k] + vparam_len[k]
          IN  VParamComponent(vobj[VArr(c)[k]], n - 1 - vparam_pos[k])]

\* _ncm_model_set_sparams: sparams_name_id, filled in slot order by
\* g_hash_table_insert, which replaces the value of a key it already holds.
SetSParamsNames(descs) ==
  { [name |-> descs[n].name,
     index |-> (CHOOSE m \in 1 .. Len(descs) :
                  /\ descs[m].name = descs[n].name
                  /\ \A q \in 1 .. Len(descs) : descs[q].name = descs[n].name => q <= m) - 1] :
      n \in 1 .. Len(descs) }

\* _ncm_model_set_sparams: model->ptypes, written slot by slot.
SetSParamsPTypesDeclared(descs) == [n \in 1 .. Len(descs) |-> descs[n].ppt]

SetSParamsPTypes(descs) == [n \in 1 .. Len(descs) |-> ParamFixed]

\* ncm_model_params_set_default: every slot takes its descriptor's default.
ParamsSetDefaultZero(descs) == [n \in 1 .. Len(descs) |-> 0]

ParamsSetDefault(descs) == [n \in 1 .. Len(descs) |-> descs[n].def]

\* g_object_new of type L with the given vector lengths (-1: not given), of the
\* most derived type that has been set up.
Construct(L, lens) ==
  /\ Running
  /\ cpc[L] \in Done
  /\ \A K \in Levels : K > L => cpc[K] = "uninit"
  /\ cls[L].object_property = "class"
  /\ model = NoModel
  /\ LET c == cls[L]
         W == LengthWrites(L, lens)
         vparam_len == InitVParamLen(L, lens)
         vparam_pos == VParamPos(c.sparam_len, vparam_len)
         total_len == TotalLen(c.sparam_len, vparam_len)
         descs == SetSParamsDescs(c, total_len, vparam_len, vparam_pos)
     IN  IF \E w \in W : w.branch.kind # "vparam_len"
           THEN Abort("construct_property", L, 0)
         ELSE IF \E i \in 1 .. c.sparam_len : SArr(c)[i] = 0
           THEN Abort("null_sparam_copy", L, 0)
         ELSE IF \E i \in 1 .. c.vparam_len : VArr(c)[i] = 0
           THEN Abort("null_vparam_copy", L, 0)
         ELSE
           /\ model' = [ type |-> L,
                         total_len |-> total_len,
                         vparam_len |-> vparam_len,
                         vparam_pos |-> vparam_pos,
                         sparams |-> descs,
                         sparams_name_id |-> SetSParamsNames(descs),
                         ptypes |-> SetSParamsPTypes(descs),
                         params |-> ParamsSetDefault(descs),
                         p |-> "params",
                         reparam |-> 0 ]
           /\ UNCHANGED <<cls, props, arrs, sobj, vobj, cpc, declared, err, instVars, numVars>>

(***************************************************************************)
(* Spec: class_init of the base, then of the child, then one instance.     *)
(***************************************************************************)
InstIdle ==
  /\ inst = << >>
  /\ vec = << >>
  /\ rep = << >>
  /\ held = << >>
  /\ last = [op |-> "none"]

NumIdle ==
  /\ mat = << >>
  /\ fstate = [is_least_squares |-> FALSE]

ClassIdle ==
  /\ cls = [L \in Levels |-> RootClass]
  /\ props = [L \in Levels |-> {}]
  /\ arrs = << >>
  /\ sobj = << >>
  /\ vobj = << >>
  /\ cpc = [L \in Levels |-> IF L = 1 THEN "init" ELSE "uninit"]
  /\ declared = [L \in Levels |-> [s |-> 0, v |-> 0]]
  /\ model = NoModel

Init ==
  /\ ClassIdle
  /\ err = NoErr
  /\ InstIdle
  /\ NumIdle

Next ==
  \/ \E L \in Levels, s \in 0 .. MaxSlots, v \in 0 .. MaxSlots, n \in NonparamChoices :
       AddParams(L, s, v, n)
  \/ \E L \in Levels, i \in 0 .. MaxSlots - 1, in \in SParamInputs :
       SetSParam(L, i, in)
  \/ \E L \in Levels, i \in 0 .. MaxSlots - 1, in \in VParamInputs :
       SetVParam(L, i, in)
  \/ \E L \in Levels : CheckParamsInfo(L)
  \/ \E L \in Levels : ClassInitReturn(L)
  \/ \E L \in Levels : ObjectClassOverride(L)
  \/ \E L \in Levels, i \in 1 .. MaxSlots, v \in NewDefaults :
       ClassSParamSetDefaultValue(L, i, v)
  \/ ClassDerive
  \/ \E L \in Levels : \E lens \in [1 .. cls[L].vparam_len -> LenChoices \cup {-1}] :
       Construct(L, lens)

Spec == Init /\ [][Next]_vars

(***************************************************************************)
(* SpecAgain: the class_init of the base type alone, which may call        *)
(* add_params more than once.                                              *)
(***************************************************************************)
NextAgain ==
  \/ \E s \in 0 .. MaxSlots, v \in 0 .. MaxSlots, n \in NonparamChoices :
       AddParams(1, s, v, n)
  \/ \E s \in 0 .. MaxSlots, v \in 0 .. MaxSlots, n \in NonparamChoices :
       AddParamsAgain(1, s, v, n)
  \/ \E i \in 0 .. MaxSlots - 1, in \in SParamInputs : SetSParam(1, i, in)
  \/ \E i \in 0 .. MaxSlots - 1, in \in VParamInputs : SetVParam(1, i, in)
  \/ CheckParamsInfo(1)

SpecAgain == Init /\ [][NextAgain]_vars

(***************************************************************************)
(* SpecInst: two constructed instances, the reparametrizations callers     *)
(* create, attach (ncm_model_set_reparam), detach and release, and          *)
(* ncm_model_is_equal.  Objects are reference counted: ref = 0 is storage  *)
(* that was never allocated or has been freed.                             *)
(***************************************************************************)
MaxLen == 2
MaxRef == 3
Insts == 1 .. 2
Reps == 1 .. 2
Vals == {0, 1}
ReparamKinds == {"linear", "flip"}
NoReparam == [ref |-> 0, kind |-> "none", new_params |-> 0, length |-> 0]

\* The vector a freshly constructed instance m owns, and the one reparam r owns.
VecOfInst(m) == m
VecOfRep(r) == 2 + r

\* ncm_reparam_old2new of the two kinds: "linear" maps x to 1 - x in every
\* component, "flip" reverses the order of the components.
Old2New(kind, src) ==
  IF kind = "linear" THEN [i \in 1 .. Len(src) |-> 1 - src[i]]
  ELSE [i \in 1 .. Len(src) |-> src[Len(src) + 1 - i]]

\* ncm_vector_ref / ncm_vector_free on the vector heap.
VectorRef(vc, v) == [vc EXCEPT ![v].ref = @ + 1]
VectorUnref(vc, v) == [vc EXCEPT ![v].ref = @ - 1]

\* g_object_unref of reparam r on the heaps H = [rep, vec]: the last
\* reference finalizes the object, which releases its new_params.
ReparamUnref(H, r) ==
  IF H.rep[r].ref > 1
    THEN [H EXCEPT !.rep[r].ref = @ - 1]
    ELSE [rep |-> [H.rep EXCEPT ![r].ref = 0],
          vec |-> VectorUnref(H.vec, H.rep[r].new_params)]

\* ncm_reparam_clear (&model->reparam).
ReparamClear(H, reparam) == IF reparam = 0 THEN H ELSE ReparamUnref(H, reparam)

\* A caller creates reparam r for vectors of the given length.
ReparamNew(r, kind, length) ==
  /\ Running
  /\ rep[r] = NoReparam
  /\ rep' = [rep EXCEPT ![r] = [ref |-> 1, kind |-> kind,
                                new_params |-> VecOfRep(r), length |-> length]]
  /\ vec' = [vec EXCEPT ![VecOfRep(r)] = [ref |-> 1, data |-> [i \in 1 .. length |-> 0]]]
  /\ held' = [held EXCEPT ![r] = 1]
  /\ last' = [op |-> "new"]
  /\ UNCHANGED <<classVars, err, inst, numVars>>

\* A caller drops the reference it owns (ncm_reparam_free).
ReparamFree(r) ==
  /\ Running
  /\ held[r] > 0
  /\ LET H == ReparamUnref([rep |-> rep, vec |-> vec], r)
     IN /\ rep' = H.rep
        /\ vec' = H.vec
  /\ held' = [held EXCEPT ![r] = 0]
  /\ last' = [op |-> "free"]
  /\ UNCHANGED <<classVars, err, inst, numVars>>

\* The forward map as set_reparam calls it, from params into new_params.
\* A destination of another length than the source is written in the
\* components both have.
Old2NewInto(kind, src, dest) ==
  [i \in 1 .. Len(dest) |-> IF i <= Len(src) THEN Old2New(kind, src)[i] ELSE dest[i]]

SetReparamForwardSwapped(kind, params, new_params) ==
  [params |-> Old2NewInto(kind, new_params, params), new_params |-> new_params]

SetReparamForward(kind, params, new_params) ==
  [params |-> params, new_params |-> Old2NewInto(kind, params, new_params)]

\* _ncm_model_sparams_remove_reparam: the reference model->p held is not
\* released before p is pointed at params again.
SParamsRemoveReparam(m) ==
  LET mo == inst[m]
      H1 == ReparamClear([rep |-> rep, vec |-> vec], mo.reparam)
  IN /\ IF mo.reparam # 0
          THEN /\ inst' = [inst EXCEPT ![m].reparam = 0, ![m].p = mo.params]
               /\ rep' = H1.rep
               /\ vec' = VectorRef(H1.vec, mo.params)
          ELSE UNCHANGED <<inst, rep, vec>>
     /\ last' = [op |-> "remove_reparam", m |-> m, had |-> mo.reparam,
                 after_set |-> last.op = "set_reparam" /\ last.m = m,
                 orig |-> IF last.op = "set_reparam" /\ last.m = m
                            THEN last.orig ELSE vec[mo.params].data]
     /\ UNCHANGED <<classVars, err, held, numVars>>

\* ncm_model_set_reparam (model, reparam), reparam = 0 for NULL.  The old
\* reparam is released before the new one is referenced: when both are the
\* same object and the instance held its only reference, the object is
\* finalized first and every later step uses freed storage.  The outcomes
\* of that are a fault, or a return with model->reparam and model->p left
\* pointing at what was freed; nothing is modelled after either.
\* No length is compared here: a reparam made for another length is
\* attached like any other, and only the forward map, called last, meets
\* the two lengths; it faults or writes the components both vectors have.
SetReparam(m, reparam) ==
  /\ Running
  /\ IF reparam = 0 THEN SParamsRemoveReparam(m)
     ELSE
       /\ rep[reparam].ref > 0
       /\ vec[rep[reparam].new_params].ref < MaxRef
       /\ LET mo == inst[m]
              np == rep[reparam].new_params
              H1 == ReparamClear([rep |-> rep, vec |-> vec], mo.reparam)
              H2 == [H1 EXCEPT !.rep[reparam].ref = @ + 1]
              H3 == [H2 EXCEPT !.vec = VectorRef(VectorUnref(@, mo.p), np)]
              fw == SetReparamForward(rep[reparam].kind, H3.vec[mo.params].data,
                                      H3.vec[np].data)
              done == [op |-> "set_reparam", m |-> m, reparam |-> reparam,
                       had |-> mo.reparam, orig |-> vec[mo.params].data]
          IN IF H1.rep[reparam].ref = 0
               THEN \/ Abort("use_after_free", m, reparam)
                    \/ /\ err' = [kind |-> "undefined", level |-> m, index |-> reparam]
                       /\ inst' = [inst EXCEPT ![m].reparam = reparam, ![m].p = np]
                       /\ rep' = H1.rep
                       /\ vec' = VectorUnref(H1.vec, mo.p)
                       /\ last' = done
                       /\ UNCHANGED <<classVars, held, numVars>>
               ELSE /\ inst' = [inst EXCEPT ![m].reparam = reparam, ![m].p = np]
                    /\ rep' = H3.rep
                    /\ last' = done
                    /\ \/ /\ vec' = [H3.vec EXCEPT ![mo.params].data = fw.params,
                                                    ![np].data = fw.new_params]
                          /\ err' = err
                       \/ /\ rep[reparam].length # mo.total_len
                          /\ vec' = H3.vec
                          /\ err' = [kind |-> "old2new_length", level |-> m, index |-> reparam]
                    /\ UNCHANGED <<classVars, held, numVars>>

\* ncm_model_is_equal (model1, model2).
IsEqual(model1, model2) ==
  IF model1.type # model2.type THEN FALSE
  ELSE IF Len(vec[model1.params].data) # Len(vec[model2.params].data) THEN FALSE
  ELSE IF model1.reparam # 0
         THEN IF model2.reparam = 0 THEN FALSE
              ELSE IF rep[model1.reparam].kind # rep[model2.reparam].kind THEN FALSE
              ELSE TRUE
  ELSE TRUE

ModelIsEqual(m1, m2) ==
  /\ Running
  /\ last' = [op |-> "is_equal", m1 |-> m1, m2 |-> m2,
              result |-> IsEqual(inst[m1], inst[m2])]
  /\ UNCHANGED <<classVars, err, inst, vec, rep, held, numVars>>

\* Two instances as _ncm_model_constructed leaves them: params allocated, p
\* a second reference to it, no reparam.  Instance 1 is of the base type,
\* has MaxLen parameters and any values in the first two of them; instance
\* 2 has all parameters 0 and differs from instance 1 in nothing, in its
\* type, or in having MaxLen - 1 parameters.
InitInst ==
  /\ ClassIdle
  /\ NumIdle
  /\ err = NoErr
  /\ \E type2 \in Levels, len2 \in {MaxLen - 1, MaxLen}, a \in [1 .. 2 -> Vals] :
      LET d1 == [i \in 1 .. MaxLen |-> IF i <= 2 THEN a[i] ELSE 0]
      IN
       /\ type2 = 1 \/ len2 = MaxLen
       /\ inst = [m \in Insts |->
                    [type |-> IF m = 1 THEN 1 ELSE type2,
                     total_len |-> IF m = 1 THEN MaxLen ELSE len2,
                     params |-> VecOfInst(m), p |-> VecOfInst(m), reparam |-> 0]]
       /\ vec = [v \in 1 .. 4 |->
                   IF v = 1 THEN [ref |-> 2, data |-> d1]
                   ELSE IF v = 2 THEN [ref |-> 2, data |-> [i \in 1 .. len2 |-> 0]]
                   ELSE [ref |-> 0, data |-> << >>]]
  /\ rep = [r \in Reps |-> NoReparam]
  /\ held = [r \in Reps |-> 0]
  /\ last = [op |-> "none"]

\* Reparam 1 is of the first kind, reparam 2 of either; each is created for
\* the length of one of the instances.
NextInst ==
  \/ \E r \in Reps, kind \in ReparamKinds, m \in Insts :
       /\ r = 1 => kind = "linear"
       /\ ReparamNew(r, kind, inst[m].total_len)
  \/ \E r \in Reps : ReparamFree(r)
  \/ \E m \in Insts, r \in 0 .. 2 : SetReparam(m, r)
  \/ \E m1, m2 \in Insts : m1 # m2 /\ ModelIsEqual(m1, m2)

SpecInst == InitInst /\ [][NextInst]_vars

(***************************************************************************)
(* SpecUse: one constructed instance, an optional reparam that renames     *)
(* some of its slots, and the calls that read and write its parameters:    *)
(* params_set_vector, params_get_all, params_valid_bounds and the lookups  *)
(* by name.  Parameter values and bounds are held in halves: 1 is 0.5.     *)
(***************************************************************************)
UseVals == {-2, 1, 4}
UseSParams ==
  { [name |-> <<"p0">>, lb |-> 0, ub |-> 2, def |-> 1, ppt |-> ParamFree],
    [name |-> <<"p1">>, lb |-> -2, ub |-> 4, def |-> 4, ppt |-> ParamFixed] }
UseVParam == [name |-> <<"v0">>, lb |-> 0, ub |-> 2, def |-> 1, ppt |-> ParamFree]
UseNames == { <<"p0">>, <<"p1">>, <<"v0", 0>>, <<"q", 0>>, <<"zz">> }
UseLens == {0, 1, 2}
UseRet == 5

\* Component j of a vector descriptor, with the template's bounds.
UseComponent(vp, j) ==
  [name |-> VParamComponent(vp, j).name, lb |-> vp.lb, ub |-> vp.ub,
   def |-> VParamComponent(vp, j).def, ppt |-> VParamComponent(vp, j).ppt]

\* The descriptor a reparam holds for slot i (0-based) when it renames it.
UseRenamed(i) == [name |-> <<"q", i>>, lb |-> -4, ub |-> 4, def |-> 0, ppt |-> ParamFree]

\* ncm_model_orig_param_index_from_name.
OrigParamIndexFromNameZero(mo, name) ==
  IF \E e \in mo.sparams_name_id : e.name = name
    THEN [found |-> TRUE, i |-> (CHOOSE e \in mo.sparams_name_id : e.name = name).index]
    ELSE [found |-> FALSE, i |-> 0]

OrigParamIndexFromName(mo, name) ==
  IF \E e \in mo.sparams_name_id : e.name = name
    THEN [found |-> TRUE, i |-> (CHOOSE e \in mo.sparams_name_id : e.name = name).index]
    ELSE [found |-> FALSE, i |-> -1]

\* ncm_reparam_index_from_name: the reparam's own table of the names it gave.
ReparamIndexFromName(r, name) ==
  IF \E e \in rep[r].sparams_name_id : e.name = name
    THEN [found |-> TRUE, i |-> (CHOOSE e \in rep[r].sparams_name_id : e.name = name).index]
    ELSE [found |-> FALSE, i |-> -1]

\* ncm_reparam_peek_param_desc (reparam, i) != NULL.
RenamedByReparamIgnored(r, i) == FALSE

RenamedByReparam(r, i) == rep[r].sparams[i + 1] # << >>

\* ncm_model_param_index_from_name: found, the index written to *i, and
\* whether the call ended in g_error.
ParamIndexFromNameResult(mo, name) ==
  LET ol == OrigParamIndexFromName(mo, name)
  IN  IF mo.reparam # 0
        THEN LET rl == ReparamIndexFromName(mo.reparam, name)
             IN  IF rl.found THEN [found |-> TRUE, i |-> rl.i, fatal |-> FALSE]
                 ELSE IF ol.found
                   THEN IF RenamedByReparam(mo.reparam, ol.i)
                          THEN [found |-> FALSE, i |-> ol.i, fatal |-> TRUE]
                          ELSE [found |-> TRUE, i |-> ol.i, fatal |-> FALSE]
                 ELSE [found |-> FALSE, i |-> ol.i, fatal |-> FALSE]
        ELSE [found |-> ol.found, i |-> ol.i, fatal |-> FALSE]

\* ncm_model_param_peek_desc: the reparam's descriptor of slot n (1-based) if
\* it holds one, else the instance's.
ParamPeekDesc(mo, n) ==
  IF mo.reparam # 0 /\ rep[mo.reparam].sparams[n] # << >>
    THEN rep[mo.reparam].sparams[n][1]
    ELSE mo.sparams[n]

\* ncm_model_param_get (model, i): component i (0-based) of the working vector.
ParamGet(mo, i) == vec[mo.p].data[i + 1]

ParamIndexFromName(m, name) ==
  /\ Running
  /\ LET res == ParamIndexFromNameResult(inst[m], name)
     IN  /\ last' = [op |-> "index_from_name", m |-> m, name |-> name,
                     found |-> res.found, i |-> res.i]
         /\ err' = IF res.fatal
                     THEN [kind |-> "param_renamed", level |-> m, index |-> res.i]
                     ELSE err
  /\ UNCHANGED <<classVars, inst, vec, rep, held, numVars>>

\* ncm_model_param_get_by_name.
ParamGetByName(m, name) ==
  /\ Running
  /\ LET res == ParamIndexFromNameResult(inst[m], name)
     IN  /\ last' = [op |-> "get_by_name", m |-> m, name |-> name,
                     value |-> IF res.found THEN <<ParamGet(inst[m], res.i)>> ELSE << >>]
         /\ err' = IF res.fatal
                     THEN [kind |-> "param_renamed", level |-> m, index |-> res.i]
                   ELSE IF ~res.found
                     THEN [kind |-> "assert_has_param", level |-> m, index |-> res.i]
                   ELSE err
  /\ UNCHANGED <<classVars, inst, vec, rep, held, numVars>>

\* ncm_model_params_valid_bounds: ub is read with the lower-bound getter.
ParamsValidBoundsResult(mo) ==
  \A n \in 1 .. mo.total_len :
    LET lb == ParamPeekDesc(mo, n).lb
        ub == ParamPeekDesc(mo, n).lb
        val == ParamGet(mo, n - 1)
    IN  ~(val < lb \/ val > ub)

ParamsValidBounds(m) ==
  /\ Running
  /\ last' = [op |-> "valid_bounds", m |-> m, result |-> ParamsValidBoundsResult(inst[m])]
  /\ UNCHANGED <<classVars, err, inst, vec, rep, held, numVars>>

\* ncm_model_params_set_vector: ncm_vector_memcpy (model->p, v), v of the
\* length of p.
ParamsSetVectorTargetParams(mo) == mo.params

ParamsSetVectorTarget(mo) == mo.p

ParamsSetVector(m, v) ==
  /\ Running
  /\ Len(v) = Len(vec[inst[m].p].data)
  /\ vec' = [vec EXCEPT ![ParamsSetVectorTarget(inst[m])].data = v]
  /\ last' = [op |-> "set_vector", m |-> m, v |-> v]
  /\ UNCHANGED <<classVars, err, inst, rep, held, numVars>>

\* ncm_model_params_get_all: ncm_vector_dup (model->p), a new vector the
\* caller owns (it has released the one an earlier call gave it).
ParamsGetAll(m) ==
  /\ Running
  /\ vec' = [vec EXCEPT ![UseRet] = [ref |-> 1, data |-> vec[inst[m].p].data]]
  /\ last' = [op |-> "get_all", m |-> m, ret |-> UseRet,
              after_set |-> last.op = "set_vector",
              v |-> IF last.op = "set_vector" THEN last.v ELSE << >>]
  /\ UNCHANGED <<classVars, err, inst, rep, held, numVars>>

\* A caller creates reparam r for the instance; it renames the slots in
\* renamed (0-based) and keeps the descriptors of the others.
UseReparamNew(r, kind, renamed) ==
  /\ Running
  /\ rep[r].ref = 0
  /\ rep[r].kind = "none"
  /\ LET length == inst[1].total_len
     IN  /\ rep' = [rep EXCEPT ![r] =
                      [ref |-> 1, kind |-> kind, new_params |-> VecOfRep(r),
                       length |-> length,
                       sparams |-> [n \in 1 .. length |->
                                      IF n - 1 \in renamed THEN <<UseRenamed(n - 1)>>
                                      ELSE << >>],
                       sparams_name_id |-> { [name |-> UseRenamed(i).name, index |-> i] :
                                               i \in renamed }]]
         /\ vec' = [vec EXCEPT ![VecOfRep(r)] =
                      [ref |-> 1, data |-> [i \in 1 .. length |-> 0]]]
  /\ held' = [held EXCEPT ![r] = 1]
  /\ last' = [op |-> "new"]
  /\ UNCHANGED <<classVars, err, inst, numVars>>

\* The descriptors of an instance: ns scalars, then the nv components of one
\* vector parameter.
UseDescs(scalars, nv) ==
  scalars \o [j \in 1 .. nv |-> UseComponent(UseVParam, j - 1)]

\* One instance as _ncm_model_constructed leaves it, of a length in UseLens.
InitUse ==
  /\ ClassIdle
  /\ NumIdle
  /\ err = NoErr
  /\ \E ns \in UseLens : \E nv \in {n \in UseLens : ns + n \in UseLens} :
     \E scalars \in [1 .. ns -> UseSParams] :
       LET descs == UseDescs(scalars, nv)
       IN  /\ inst = << [type |-> 1, total_len |-> Len(descs),
                         params |-> VecOfInst(1), p |-> VecOfInst(1), reparam |-> 0,
                         sparams |-> descs,
                         sparams_name_id |-> SetSParamsNames(descs),
                         ptypes |-> SetSParamsPTypes(descs)] >>
           /\ vec = [v \in 1 .. UseRet |->
                       IF v = VecOfInst(1)
                         THEN [ref |-> 2, data |-> ParamsSetDefault(descs)]
                         ELSE [ref |-> 0, data |-> << >>]]
  /\ rep = [r \in Reps |-> [ref |-> 0, kind |-> "none", new_params |-> 0, length |-> 0,
                            sparams |-> << >>, sparams_name_id |-> {}]]
  /\ held = [r \in Reps |-> 0]
  /\ last = [op |-> "none"]

\* The reparams a caller creates here are of the first kind and rename
\* slot 0 or nothing; once attached a reparam stays attached.
UseRenamedChoices == { renamed \in {{}, {0}} : renamed \subseteq 0 .. inst[1].total_len - 1 }

\* A caller releases the vector params_get_all returned.
UseRetFree ==
  /\ Running
  /\ vec[UseRet].ref > 0
  /\ vec' = [vec EXCEPT ![UseRet] = [ref |-> 0, data |-> << >>]]
  /\ last' = [op |-> "free"]
  /\ UNCHANGED <<classVars, err, inst, rep, held, numVars>>

\* SpecUse: the calls on the values.  A caller keeps a vector it got from
\* params_get_all only across writes to the instance.
NextUse ==
  \/ \E renamed \in UseRenamedChoices :
       vec[UseRet].ref = 0 /\ UseReparamNew(1, "linear", renamed)
  \/ vec[UseRet].ref = 0 /\ SetReparam(1, 1)
  \/ \E v \in [1 .. inst[1].total_len -> UseVals] : ParamsSetVector(1, v)
  \/ vec[UseRet].ref = 0 /\ ParamsGetAll(1)
  \/ vec[UseRet].ref = 0 /\ ParamsValidBounds(1)
  \/ UseRetFree

SpecUse == InitUse /\ [][NextUse]_vars

\* SpecNames: the lookups by name, without and with a reparam.
NextNames ==
  \/ \E renamed \in UseRenamedChoices : UseReparamNew(1, "linear", renamed)
  \/ SetReparam(1, 1)
  \/ \E name \in UseNames : ParamIndexFromName(1, name)
  \/ \E name \in UseNames : ParamGetByName(1, name)

SpecNames == InitUse /\ [][NextNames]_vars

(***************************************************************************)
(* SpecProp: the class_init phase, one instance, and the GObject property  *)
(* requests made on it afterwards.  GObject hands a request to the         *)
(* dispatcher of the level that installed the property, with that level's  *)
(* class struct.                                                           *)
(***************************************************************************)
PropSlots == 0 .. 2
PropVecs == { <<9>>, <<9, 9>> }
PropLens == { <<0>>, <<3>> }
PropFits == { <<TRUE>>, <<TRUE, FALSE>> }

\* A class_init that supplies its own handlers for the non-parameter
\* properties (model_class->set_property and get_property).
ClassSetHandlers(L) ==
  /\ Setup(L)
  /\ ~cls[L].class_property
  /\ cls' = [cls EXCEPT ![L].class_property = TRUE]
  /\ UNCHANGED <<props, arrs, sobj, vobj, cpc, declared, model, err, instVars, numVars>>

\* The ids of the properties level A installed: those of its parameters and
\* its non-parameter ones, 1 .. nonparam_prop_len - 1.
PropIds(A) == { pr.id : pr \in props[A] } \cup (1 .. cls[A].nonparam_prop_len - 1)

\* The ids a caller may write once the instance is built: the length
\* properties are construct-only.
PropIdsWritable(A) == PropIds(A) \ { pr.id : pr \in { q \in props[A] : q.kind = "vparam_len" } }

\* The values a request may carry, by the branch that reads it.
PropValues(kind) ==
  CASE kind = "sparam" -> { <<9>> }
    [] kind = "vparam" -> PropVecs
    [] kind = "vparam_len" -> PropLens
    [] kind = "sparam_fit" -> { <<TRUE>>, <<FALSE>> }
    [] kind = "vparam_fit" -> PropFits
    [] OTHER -> { << >> }

\* The level at which a request was resolved to a handler or a slot, 0 when
\* the walk ended in none of the regions.
ResolvedAt(A, branch) == IF branch.kind = "not_reached" THEN 0 ELSE A

\* No comparison of the two lengths.
VParamLenMismatchNever(n, len) == FALSE

\* set_property of a vector value: n != model->vparam_len[vparam_id].
VParamLenMismatch(n, len) == n # len

\* ncm_model_orig_vparam_set_vector: the components of vals go to the slots
\* from pos on.
OrigVParamSetVector(params, pos, vals) ==
  [n \in DOMAIN params |->
     IF pos < n /\ n <= pos + Len(vals) THEN vals[n - pos] ELSE params[n]]

\* ncm_model_param_set_ftype on the slots pos + 1 .. pos + nv.
SetFTypes(ptypes, pos, nv, fits) ==
  [n \in DOMAIN ptypes |->
     IF pos < n /\ n <= pos + nv
       THEN (IF fits[IF Len(fits) = 1 THEN 1 ELSE n - pos] THEN ParamFree ELSE ParamFixed)
       ELSE ptypes[n]]

\* What _ncm_model_class_set_property does to the instance for the branch it
\* takes: the fatal error it ends in ("none" if it returns) and the instance
\* it leaves.  A slot beyond total_len is storage outside the arrays.
SetPropertyWrite(branch, value) ==
  LET i == branch.index + 1
      nv == model.vparam_len[i]
      pos == model.vparam_pos[i]
  IN  CASE branch.kind = "sparam" ->
             [err |-> "none", model |-> [model EXCEPT !.params[i] = value[1]]]
        [] branch.kind = "vparam" ->
             IF VParamLenMismatch(Len(value), nv)
               THEN [err |-> "vparam_length", model |-> model]
             ELSE IF pos + Len(value) > model.total_len
               THEN [err |-> "undefined", model |-> model]
             ELSE [err |-> "none",
                   model |-> [model EXCEPT !.params = OrigVParamSetVector(@, pos, value)]]
        [] branch.kind = "vparam_len" ->
             [err |-> "none", model |-> [model EXCEPT !.vparam_len[i] = value[1]]]
        [] branch.kind = "sparam_fit" ->
             [err |-> "none",
              model |-> [model EXCEPT !.ptypes[i] = IF value[1] THEN ParamFree ELSE ParamFixed]]
        [] branch.kind = "vparam_fit" ->
             IF Len(value) # 1 /\ Len(value) # nv
               THEN [err |-> "vparam_fit_length", model |-> model]
             ELSE IF pos + nv > model.total_len
               THEN [err |-> "undefined", model |-> model]
             ELSE [err |-> "none",
                   model |-> [model EXCEPT !.ptypes = SetFTypes(@, pos, nv, value)]]
        [] branch.kind = "not_reached" ->
             [err |-> "assert_not_reached", model |-> model]
        [] OTHER -> [err |-> "none", model |-> model]

\* What _ncm_model_class_get_property puts in the GValue.
GetPropertyRead(branch) ==
  LET i == branch.index + 1
      nv == model.vparam_len[i]
      pos == model.vparam_pos[i]
  IN  CASE branch.kind = "sparam" -> [err |-> "none", value |-> <<model.params[i]>>]
        [] branch.kind = "vparam" ->
             IF pos + nv > model.total_len
               THEN [err |-> "undefined", value |-> << >>]
               ELSE [err |-> "none", value |-> SubSeq(model.params, pos + 1, pos + nv)]
        [] branch.kind = "vparam_len" -> [err |-> "none", value |-> <<nv>>]
        [] branch.kind = "sparam_fit" ->
             [err |-> "none", value |-> <<model.ptypes[i] = ParamFree>>]
        [] branch.kind = "vparam_fit" ->
             IF pos + nv > model.total_len
               THEN [err |-> "undefined", value |-> << >>]
               ELSE [err |-> "none",
                     value |-> [j \in 1 .. nv |-> model.ptypes[pos + j] = ParamFree]]
        [] branch.kind = "not_reached" -> [err |-> "assert_not_reached", value |-> << >>]
        [] OTHER -> [err |-> "none", value |-> << >>]

\* The end of a request: the fatal error, if any.  g_assert_not_reached ends
\* the process unless the build leaves assertions out, and then the
\* dispatcher returns with nothing done.
PropertyEnds(e, A, prop_id) ==
  \/ err' = (IF e = "none" THEN NoErr ELSE [kind |-> e, level |-> A, index |-> prop_id])
  \/ e = "assert_not_reached" /\ err' = NoErr

\* g_object_set_property on the instance, for a property level A installed.
SetProperty(A, prop_id) ==
  /\ Running
  /\ model # NoModel
  /\ A \in 1 .. model.type
  /\ prop_id \in PropIdsWritable(A)
  /\ LET branch == SetPropertyBranch(cls[A], prop_id)
     IN  \E value \in PropValues(branch.kind) :
           LET w == SetPropertyWrite(branch, value)
           IN  /\ model' = w.model
               /\ PropertyEnds(w.err, A, prop_id)
               /\ last' = [op |-> "set_property", level |-> A, id |-> prop_id,
                           kind |-> branch.kind, index |-> branch.index,
                           resolved |-> ResolvedAt(A, branch), value |-> value]
  /\ UNCHANGED <<cls, props, arrs, sobj, vobj, cpc, declared, inst, vec, rep, held, numVars>>

\* g_object_get_property on the instance.
GetProperty(A, prop_id) ==
  /\ Running
  /\ model # NoModel
  /\ A \in 1 .. model.type
  /\ prop_id \in PropIds(A)
  /\ LET branch == GetPropertyBranch(cls[A], prop_id)
         r == GetPropertyRead(branch)
     IN  /\ PropertyEnds(r.err, A, prop_id)
         /\ last' = [op |-> "get_property", level |-> A, id |-> prop_id,
                     kind |-> branch.kind, index |-> branch.index,
                     resolved |-> ResolvedAt(A, branch), value |-> r.value]
  /\ UNCHANGED <<classVars, inst, vec, rep, held, numVars>>

\* The class_init calls as in Spec, for types of at most two slots, with one
\* descriptor to choose from for a scalar and one, of length 2, for a vector.
NextProp ==
  \/ \E L \in Levels, s \in PropSlots, v \in PropSlots, n \in NonparamChoices :
       /\ cls[L].sparam_len + s + cls[L].vparam_len + v \in PropSlots
       /\ AddParams(L, s, v, n)
  \/ \E L \in Levels, i \in PropSlots :
       SetSParam(L, i, [name |-> <<"p", i>>, def |-> 2, ppt |-> ParamFree])
  \/ \E L \in Levels, i \in PropSlots :
       SetVParam(L, i, [len |-> 2, name |-> <<"v", i>>, def |-> 1, ppt |-> ParamFree])
  \/ \E L \in Levels : ClassSetHandlers(L)
  \/ \E L \in Levels : CheckParamsInfo(L)
  \/ ClassDerive
  \/ \E L \in Levels : \E lens \in [1 .. cls[L].vparam_len -> {-1}] : Construct(L, lens)
  \/ \E A \in Levels : \E prop_id \in PropIdsWritable(A) : SetProperty(A, prop_id)
  \/ \E A \in Levels : \E prop_id \in PropIds(A) : GetProperty(A, prop_id)

SpecProp == Init /\ [][NextProp]_vars

(***************************************************************************)
(* SpecMat: NcmMatrix objects (numcosmo/math/ncm_matrix.c), the views      *)
(* taken of them (submatrices, and rows and columns, which are vectors)    *)
(* and ncm_matrix_set_from_variant.  An object is a GObject: ref is its    *)
(* reference count, 0 before g_object_new and after it is finalized; held  *)
(* counts the references callers own.  The storage of a matrix of type     *)
(* "slice" is its own; a view's elements are those of the storage of root, *)
(* from row r0 and column c0 on.                                           *)
(***************************************************************************)
Mats == 1 .. 3
MatDims == {1, 2}
MatHeld == {1}
NoMatrix ==
  [ref |-> 0, held |-> 0, kind |-> "none", type |-> "none", nrows |-> 0, ncols |-> 0,
   pdata |-> 0, root |-> 0, r0 |-> 0, c0 |-> 0, data |-> "none", vals |-> << >>]

\* The variants handed to set_from_variant: of type "aad" with at least one
\* row, or of another type.
MatVariants ==
  { [aad |-> TRUE, rows |-> r] : r \in { << <<1, 1>> >>, << <<1, 1>>, <<1, 1>> >> } }
    \cup { [aad |-> FALSE, rows |-> << >>] }

\* The index g_object_new gives the next object.
MatNext(k) == mat[k].kind = "none" /\ \A j \in 1 .. k - 1 : mat[j].kind # "none"

\* ncm_matrix_new (nrows, ncols).
MatrixNew(k, nrows, ncols) ==
  /\ Running
  /\ MatNext(k)
  /\ mat' = [mat EXCEPT ![k] =
               [NoMatrix EXCEPT !.ref = 1, !.held = 1, !.kind = "matrix", !.type = "slice",
                                !.nrows = nrows, !.ncols = ncols, !.root = k,
                                !.data = "live",
                                !.vals = [i \in 1 .. nrows |-> [j \in 1 .. ncols |-> 0]]]]
  /\ last' = [op |-> "matrix_new", cm |-> k]
  /\ UNCHANGED <<classVars, err, inst, vec, rep, held, fstate>>

\* g_object_new (NCM_TYPE_MATRIX, NULL): ncm_matrix_init leaves a 0x0 matrix
\* of no type, which is what set_from_variant meets during instantiation.
MatrixObjectNew(k) ==
  /\ Running
  /\ MatNext(k)
  /\ mat' = [mat EXCEPT ![k] = [NoMatrix EXCEPT !.ref = 1, !.held = 1, !.kind = "matrix"]]
  /\ last' = [op |-> "object_new", cm |-> k]
  /\ UNCHANGED <<classVars, err, inst, vec, rep, held, fstate>>

\* A view that takes no reference to what it views.
ViewRefNone(ref) == ref

\* scm->pdata = g_object_ref (cm).
ViewRef(ref) == ref + 1

\* ncm_matrix_get_submatrix (cm, k1, k2, nrows, ncols), for a range that lies
\* in cm.
MatrixGetSubmatrix(k, cm, k1, k2, nrows, ncols) ==
  /\ Running
  /\ MatNext(k)
  /\ mat[cm].ref > 0
  /\ mat[cm].kind = "matrix"
  /\ k1 + nrows <= mat[cm].nrows
  /\ k2 + ncols <= mat[cm].ncols
  /\ mat' = [mat EXCEPT
               ![k] = [NoMatrix EXCEPT !.ref = 1, !.held = 1, !.kind = "matrix",
                                       !.type = "derived", !.nrows = nrows, !.ncols = ncols,
                                       !.pdata = cm, !.root = mat[cm].root,
                                       !.r0 = mat[cm].r0 + k1, !.c0 = mat[cm].c0 + k2],
               ![cm].ref = ViewRef(@)]
  /\ last' = [op |-> "get_submatrix", cm |-> cm, scm |-> k]
  /\ UNCHANGED <<classVars, err, inst, vec, rep, held, fstate>>

\* ncm_matrix_get_col (cm, col): a vector over column col.
MatrixGetCol(k, cm, col) ==
  /\ Running
  /\ MatNext(k)
  /\ mat[cm].ref > 0
  /\ mat[cm].kind = "matrix"
  /\ col < mat[cm].ncols
  /\ mat' = [mat EXCEPT
               ![k] = [NoMatrix EXCEPT !.ref = 1, !.held = 1, !.kind = "vector",
                                       !.type = "derived", !.nrows = mat[cm].nrows, !.ncols = 1,
                                       !.pdata = cm, !.root = mat[cm].root,
                                       !.r0 = mat[cm].r0, !.c0 = mat[cm].c0 + col],
               ![cm].ref = ViewRef(@)]
  /\ last' = [op |-> "get_col", cm |-> cm, cv |-> k]
  /\ UNCHANGED <<classVars, err, inst, vec, rep, held, fstate>>

\* ncm_matrix_get_row (cm, row): a vector over row row.
MatrixGetRow(k, cm, row) ==
  /\ Running
  /\ MatNext(k)
  /\ mat[cm].ref > 0
  /\ mat[cm].kind = "matrix"
  /\ row < mat[cm].nrows
  /\ mat' = [mat EXCEPT
               ![k] = [NoMatrix EXCEPT !.ref = 1, !.held = 1, !.kind = "vector",
                                       !.type = "derived", !.nrows = 1, !.ncols = mat[cm].ncols,
                                       !.pdata = cm, !.root = mat[cm].root,
                                       !.r0 = mat[cm].r0 + row, !.c0 = mat[cm].c0],
               ![cm].ref = ViewRef(@)]
  /\ last' = [op |-> "get_row", cm |-> cm, cv |-> k]
  /\ UNCHANGED <<classVars, err, inst, vec, rep, held, fstate>>

\* g_object_unref on the heap H.  The last reference runs _ncm_matrix_dispose,
\* which calls pfree (pdata) once and clears both, and _ncm_matrix_finalize,
\* which frees the storage of a matrix of type "slice" and of no other.
RECURSIVE MatrixUnref(_, _)
MatrixUnref(H, k) ==
  IF H[k].ref > 1 THEN [H EXCEPT ![k].ref = @ - 1]
  ELSE LET D == IF H[k].pdata # 0
                  THEN MatrixUnref([H EXCEPT ![k].pdata = 0], H[k].pdata)
                  ELSE H
       IN  [D EXCEPT ![k].ref = 0,
                     ![k].data = IF D[k].type = "slice" THEN "freed" ELSE D[k].data,
                     ![k].vals = << >>]

\* ncm_matrix_free (cm) / ncm_vector_free (cv) by a caller that owns a reference.
MatrixFree(k) ==
  /\ Running
  /\ mat[k].held > 0
  /\ mat' = MatrixUnref([mat EXCEPT ![k].held = @ - 1], k)
  /\ last' = [op |-> "matrix_free", cm |-> k]
  /\ UNCHANGED <<classVars, err, inst, vec, rep, held, fstate>>

\* ncm_matrix_ref (cm): a caller takes one more reference.
MatrixRef(k) ==
  /\ Running
  /\ mat[k].ref > 0
  /\ mat[k].held \in MatHeld
  /\ mat' = [mat EXCEPT ![k].ref = @ + 1, ![k].held = @ + 1]
  /\ last' = [op |-> "matrix_ref", cm |-> k]
  /\ UNCHANGED <<classVars, err, inst, vec, rep, held, fstate>>

\* ncm_matrix_set (cm, i, j, val) for every element of rows.
MatrixSetAll(H, k, rows) ==
  [H EXCEPT ![H[k].root].vals =
     [i \in 1 .. Len(@) |->
        [j \in 1 .. Len(@[i]) |->
           IF /\ H[k].r0 < i /\ i <= H[k].r0 + H[k].nrows
              /\ H[k].c0 < j /\ j <= H[k].c0 + H[k].ncols
             THEN rows[i - H[k].r0][j - H[k].c0]
             ELSE @[i][j]]]]

\* ncm_matrix_set_from_variant (cm, var).
MatrixSetFromVariant(k, var) ==
  /\ Running
  /\ mat[k].ref > 0
  /\ mat[k].kind = "matrix"
  /\ LET nrows == Len(var.rows)
         ncols == Len(var.rows[1])
         alloc == [mat EXCEPT ![k].type = "slice", ![k].nrows = nrows, ![k].ncols = ncols,
                              ![k].root = k, ![k].data = "live", ![k].vals = var.rows]
     IN  /\ last' = [op |-> "set_from_variant", cm |-> k, var |-> var,
                     was |-> <<mat[k].nrows, mat[k].ncols>>]
         /\ IF ~var.aad
              THEN /\ err' = [kind |-> "variant_type", level |-> 0, index |-> k]
                   /\ mat' = mat
            ELSE IF mat[k].nrows = 0 /\ mat[k].ncols = 0
              THEN /\ err' = err
                   /\ mat' = alloc
            ELSE IF nrows # mat[k].nrows \/ ncols # mat[k].ncols
              THEN /\ err' = [kind |-> "variant_shape", level |-> 0, index |-> k]
                   /\ mat' = mat
            ELSE /\ err' = err
                 /\ mat' = MatrixSetAll(mat, k, var.rows)
  /\ UNCHANGED <<classVars, inst, vec, rep, held, fstate>>

InitMat ==
  /\ ClassIdle
  /\ InstIdle
  /\ err = NoErr
  /\ mat = [k \in Mats |-> NoMatrix]
  /\ fstate = [is_least_squares |-> FALSE]

\* The matrices callers make have two columns, the submatrices they take
\* are one row of a matrix, whole or its first element.
NextMat ==
  \/ \E k \in Mats, nrows \in MatDims : MatrixNew(k, nrows, 2)
  \/ \E k \in Mats : MatrixObjectNew(k)
  \/ \E k, cm \in Mats, k1 \in {0, 1}, ncols \in MatDims :
       MatrixGetSubmatrix(k, cm, k1, 0, 1, ncols)
  \/ \E k, cm \in Mats, col \in {0, 1} : MatrixGetCol(k, cm, col)
  \/ \E k, cm \in Mats, row \in {0, 1} : MatrixGetRow(k, cm, row)
  \/ \E k \in Mats : MatrixFree(k)
  \/ \E k \in Mats : MatrixRef(k)
  \/ \E k \in Mats, var \in MatVariants : MatrixSetFromVariant(k, var)

SpecMat == InitMat /\ [][NextMat]_vars

(***************************************************************************)
(* SpecFit: a fit state (numcosmo/math/ncm_fit_state.h) of two data points *)
(* and two free parameters, and ncm_fit_state_set_ls.                      *)
(***************************************************************************)
FitFs == { <<3, 4>>, <<0, 1>>, <<1, 0>> }
FitJs == [1 .. 2 -> [1 .. 2 -> {0, 1}]]

\* gsl_blas_dnrm2: the Euclidean norm (the vectors of FitFs have a whole one).
Dnrm2(x) == CHOOSE r \in 0 .. 10 : r * r = SumSeq([i \in DOMAIN x |-> x[i] * x[i]])

\* gsl_blas_dgemv (CblasTrans, alpha, A, x, 0.0, y): y = alpha * A^T x.
DgemvTrans(alpha, A, x) ==
  [j \in DOMAIN A[1] |-> alpha * SumSeq([i \in DOMAIN A |-> A[i][j] * x[i]])]

\* ncm_fit_state_set_ls: the matrix handed to gsl_blas_dgemv is fstate->ls_J
\* as it is before ncm_matrix_memcpy (fstate->ls_J, J).
SetLsGradientJ(ls_J, J) == ls_J

\* ncm_fit_state_set_ls (fstate, f, J).
FitStateSetLs(f, J) ==
  /\ Running
  /\ IF ~fstate.is_least_squares
       THEN Abort("assert_is_least_squares", 0, 0)
       ELSE /\ fstate' = [fstate EXCEPT
                            !.m2lnL_curval = Dnrm2(f),
                            !.ls_f = f,
                            !.dm2lnL = DgemvTrans(2, SetLsGradientJ(fstate.ls_J, J), f),
                            !.ls_J = J]
            /\ last' = [op |-> "set_ls", f |-> f, J |-> J]
            /\ UNCHANGED <<classVars, err, inst, vec, rep, held, mat>>

\* The state ncm_fit_state_new leaves: least squares or not, the residuals
\* and the gradient zero, and whatever the Jacobian's storage holds.
InitFit ==
  /\ ClassIdle
  /\ InstIdle
  /\ err = NoErr
  /\ mat = << >>
  /\ \E ls \in BOOLEAN, J0 \in FitJs :
       fstate = [is_least_squares |-> ls, m2lnL_curval |-> 0,
                 ls_f |-> <<0, 0>>, ls_J |-> J0, dm2lnL |-> <<0, 0>>]

NextFit == \E f \in FitFs, J \in FitJs : FitStateSetLs(f, J)

SpecFit == InitFit /\ [][NextFit]_vars

(***************************************************************************)
(* Properties of the schema.                                               *)
(***************************************************************************)
Installed(L) == cpc[L] \in {"added", "closed", "unclosed"}
HasNullSlot(L) ==
  \/ \E i \in 1 .. Len(SArr(cls[L])) : SArr(cls[L])[i] = 0
  \/ \E i \in 1 .. Len(VArr(cls[L])) : VArr(cls[L])[i] = 0
SchemaVars == <<cls, props, arrs, sobj, vobj, declared>>

\* C1: every property id that set_sparam (value, fit flag) or set_vparam
\* (value, length, fit flag) installed at a level is resolved by the get and
\* the set dispatcher of that level to the kind and the absolute slot index it
\* was installed for, and so to no other slot.
C1_InstalledIdsResolve ==
  \A L \in Levels : \A pr \in props[L] :
    /\ GetPropertyBranch(cls[L], pr.id) = [kind |-> pr.kind, index |-> pr.index]
    /\ SetPropertyBranch(cls[L], pr.id) = [kind |-> pr.kind, index |-> pr.index]

\* A child level with an inherited slot and an own vector slot, all ids installed.
C1_Witness ==
  /\ cpc[2] = "closed"
  /\ cls[2].parent_sparam_len + cls[2].parent_vparam_len > 0
  /\ \E pr \in props[2] : pr.kind = "vparam_fit"

\* The place of a kind's region among a level's ids, counted from nonparam.
RegionStart(kind, s, v) ==
  CASE kind = "sparam" -> 0
    [] kind = "vparam" -> s
    [] kind = "vparam_len" -> s + v
    [] kind = "sparam_fit" -> s + 2 * v
    [] kind = "vparam_fit" -> 2 * s + 2 * v
RegionParent(c, kind) ==
  IF kind \in {"sparam", "sparam_fit"} THEN c.parent_sparam_len ELSE c.parent_vparam_len

\* C2: at one level with n non-parameter ids, s own scalar and v own vector
\* slots, the installed ids are pairwise distinct, lie in the order scalar
\* values, vector values, vector lengths, scalar fit flags, vector fit flags,
\* and once every own slot is set they are exactly n .. n + 2s + 3v - 1.
C2_IdsContiguousInOrder ==
  \A L \in Levels :
    LET c == cls[L]
        n == c.nonparam_prop_len
        s == OwnS(c)
        v == OwnV(c)
    IN  /\ \A pr \in props[L] :
             pr.id = n + RegionStart(pr.kind, s, v) + (pr.index - RegionParent(c, pr.kind))
        /\ \A pr, qr \in props[L] : pr.id = qr.id => pr = qr
        /\ (Installed(L) /\ ~HasNullSlot(L)) =>
             /\ Cardinality(props[L]) = 2 * s + 3 * v
             /\ {pr.id : pr \in props[L]} = n .. n + 2 * s + 3 * v - 1

\* A level with a scalar and a vector of its own, every slot set: five ids.
C2_Witness ==
  \E L \in Levels :
    /\ Installed(L) /\ ~HasNullSlot(L)
    /\ OwnS(cls[L]) >= 1 /\ OwnV(cls[L]) >= 1
    /\ Cardinality(props[L]) = 5

\* C3: an instance of a type has total_len equal to the scalars declared by its
\* type and the ancestors (a + b for a child) plus the sum of the instance's
\* vector lengths, and a type's scalar count is its parent's plus the delta it
\* passed to add_params.
C3_TotalLen ==
  /\ \A L \in Levels : Installed(L) =>
       cls[L].sparam_len =
         (IF L = 1 THEN 0 ELSE cls[L - 1].sparam_len) + declared[L].s
  /\ model # NoModel =>
       model.total_len =
         SumSeq([A \in 1 .. model.type |-> declared[A].s]) + SumSeq(model.vparam_len)

\* A child instance over a base scalar and a child scalar.
C3_Witness ==
  /\ model # NoModel
  /\ model.type = 2
  /\ declared[1].s >= 1
  /\ declared[2].s >= 1

\* C4: set_sparam and set_vparam on an index whose slot is not NULL, an
\* inherited copy included, fail, and the arrays and the descriptors are as
\* they were before the call.
C4_OneShotSlots ==
  [][ \A L \in Levels, i \in 0 .. MaxSlots - 1 :
        /\ \A in \in SParamInputs :
             (i < Len(SArr(cls[L])) /\ SArr(cls[L])[i + 1] # 0 /\ SetSParam(L, i, in))
               => (err' # NoErr /\ arrs' = arrs /\ sobj' = sobj)
        /\ \A in \in VParamInputs :
             (i < Len(VArr(cls[L])) /\ VArr(cls[L])[i + 1] # 0 /\ SetVParam(L, i, in))
               => (err' # NoErr /\ arrs' = arrs /\ vobj' = vobj) ]_vars

\* A set_sparam on the child's inherited slot 0 has failed.
C4_Witness ==
  /\ err.kind \in {"sparam_already_set", "vparam_already_set", "assert_prop_id"}
  /\ err.level = 2
  /\ err.index = 0
  /\ cls[2].parent_sparam_len + cls[2].parent_vparam_len >= 1

\* C5 as stated: check_params_info fails whenever a scalar or vector slot is
\* NULL and returns, the schema unchanged, whenever none is.
C5_CloseFailsIffNullSlot ==
  [][ \A L \in Levels : CheckParamsInfo(L) =>
        IF HasNullSlot(L) THEN err' # NoErr
        ELSE err' = NoErr /\ UNCHANGED SchemaVars ]_vars

\* C5 amended: check_params_info fails whenever a scalar or vector slot is
\* NULL, and also when the type has no slot at all and nonparam_prop_len is 0,
\* and when the class_init replaced the GObject property handlers add_params
\* installed; in every other case it returns with the schema unchanged.
C5_CloseFails ==
  [][ \A L \in Levels : CheckParamsInfo(L) =>
        IF \/ HasNullSlot(L)
           \/ cls[L].sparam_len + cls[L].vparam_len = 0 /\ cls[L].nonparam_prop_len = 0
           \/ cls[L].object_property # "class"
          THEN err' # NoErr /\ UNCHANGED SchemaVars
          ELSE err' = NoErr /\ cpc'[L] = "closed" /\ UNCHANGED SchemaVars ]_vars

\* A check that returned on a type with two slots, and the failures it has.
C5_Witness ==
  \E L \in Levels :
    /\ cpc[L] = "closed"
    /\ cls[L].sparam_len >= 1
    /\ cls[L].vparam_len >= 1

BaseSArr == SArr(cls[1])
BaseVArr == VArr(cls[1])
BaseSSpecs == [i \in 1 .. Len(BaseSArr) |-> IF BaseSArr[i] = 0 THEN <<>> ELSE <<sobj[BaseSArr[i]]>>]
BaseVSpecs == [i \in 1 .. Len(BaseVArr) |-> IF BaseVArr[i] = 0 THEN <<>> ELSE <<vobj[BaseVArr[i]]>>]
ChildSArr == SArr(cls[2])
ChildVArr == VArr(cls[2])

\* C6: add_params of the derived type puts at every inherited index i a new
\* object equal to the parent's slot i, and nothing done afterwards (set_sparam
\* and set_vparam on the derived arrays, a change made through a derived copy)
\* changes the parent's arrays or the descriptors they point to.
C6_InheritedDeepCopy ==
  [][ /\ cpc[1] \in Done =>
           /\ cls'[1] = cls[1]
           /\ BaseSArr' = BaseSArr /\ BaseSSpecs' = BaseSSpecs
           /\ BaseVArr' = BaseVArr /\ BaseVSpecs' = BaseVSpecs
      /\ (cpc[2] = "init" /\ cpc'[2] = "added") =>
           /\ cls'[2].parent_sparam_len = Len(BaseSArr)
           /\ cls'[2].parent_vparam_len = Len(BaseVArr)
           /\ \A i \in 1 .. Len(BaseSArr) :
                /\ ChildSArr'[i] \notin {0, BaseSArr[i]}
                /\ sobj'[ChildSArr'[i]] = sobj[BaseSArr[i]]
           /\ \A i \in 1 .. Len(BaseVArr) :
                /\ ChildVArr'[i] \notin {0, BaseVArr[i]}
                /\ vobj'[ChildVArr'[i]] = vobj[BaseVArr[i]] ]_vars

\* The child changed its copy of slot 0 and the parent's slot 0 is as it was.
C6_Witness ==
  /\ Installed(2)
  /\ cls[2].parent_sparam_len >= 1
  /\ sobj[ChildSArr[1]] # sobj[BaseSArr[1]]
  /\ sobj[BaseSArr[1]] \in SParamInputs

(***************************************************************************)
(* Properties of the instances and their reparametrization (SpecInst).     *)
(***************************************************************************)

\* C7: in every state of an instance its working vector p is live storage,
\* it is the original vector params exactly when no reparam is attached,
\* and it is the attached (live) reparam's new_params otherwise.
C7_WorkingVectorAliases ==
  \A m \in DOMAIN inst :
    /\ vec[inst[m].p].ref > 0
    /\ (inst[m].reparam = 0) <=> (inst[m].p = inst[m].params)
    /\ inst[m].reparam # 0 =>
         /\ rep[inst[m].reparam].ref > 0
         /\ inst[m].p = rep[inst[m].reparam].new_params

\* C8: a set_reparam (m, r) with r not NULL that returns has released the
\* reparam attached before, leaves r (alive) as the one attached, p as r's
\* new_params and new_params holding the forward image of params.
C8_AttachPostcondition ==
  [][(last'.op = "set_reparam" /\ err'.kind # "use_after_free") =>
       LET m == last'.m
           r == last'.reparam
           old == inst[m].reparam
       IN /\ inst'[m].reparam = r
          /\ rep'[r].ref > 0
          /\ inst'[m].p = rep'[r].new_params
          /\ vec'[inst'[m].p].ref > 0
          /\ vec'[inst'[m].p].data = Old2New(rep'[r].kind, vec'[inst'[m].params].data)
          /\ (old # 0 /\ old # r) => rep'[old].ref = rep[old].ref - 1]_vars

\* C9: a set_reparam (m, NULL) that follows a set_reparam (m, T) leaves no
\* reparam attached, p back on params, and params holding the values it
\* held before T was attached.
C9_DetachRestoresOriginal ==
  (last.op = "remove_reparam" /\ last.after_set) =>
    /\ inst[last.m].reparam = 0
    /\ inst[last.m].p = inst[last.m].params
    /\ vec[inst[last.m].params].data = last.orig

C9_Witness ==
  /\ last.op = "remove_reparam"
  /\ last.after_set
  /\ last.had # 0
  /\ \E i \in DOMAIN last.orig : last.orig[i] = 1
  /\ \E i \in DOMAIN last.orig : last.orig[i] = 0

\* C10: is_equal (m1, m2) is TRUE exactly when the two instances have the
\* same type, the same number of parameters, and either neither has a
\* reparam or both have one of the same kind.
C10_IsEqualReparamBothWays ==
  last.op = "is_equal" =>
    LET a == inst[last.m1]
        b == inst[last.m2]
    IN last.result <=>
         /\ a.type = b.type
         /\ a.total_len = b.total_len
         /\ \/ a.reparam = 0 /\ b.reparam = 0
            \/ /\ a.reparam # 0
               /\ b.reparam # 0
               /\ rep[a.reparam].kind = rep[b.reparam].kind

(***************************************************************************)
(* Properties of a freshly constructed instance (Spec).                    *)
(***************************************************************************)
\* The class descriptor behind slot n (1-based) of the instance: a scalar
\* descriptor, or the vector descriptor whose range of slots holds n.
SlotSpec(n) ==
  LET c == cls[model.type]
  IN  IF n <= c.sparam_len THEN sobj[SArr(c)[n]]
      ELSE vobj[VArr(c)[CHOOSE k \in 1 .. c.vparam_len :
                          /\ model.vparam_pos[k] < n
                          /\ n <= model.vparam_pos[k] + model.vparam_len[k]]]

\* C15: a freshly constructed instance holds in every slot (inherited and own
\* scalars, every vector component) the default value of that slot's spec.
C15_FreshDefaults ==
  model # NoModel =>
    /\ Len(model.params) = model.total_len
    /\ \A n \in 1 .. model.total_len : model.params[n] = SlotSpec(n).def

\* A child instance whose inherited scalar has default 2 and whose own scalar
\* has default 5 holds <<2, 5>>.
C15_Witness ==
  /\ model # NoModel
  /\ model.type = 2
  /\ cls[2].parent_sparam_len = 1
  /\ cls[2].sparam_len = 2
  /\ sobj[SArr(cls[2])[1]].def = 2
  /\ sobj[SArr(cls[2])[2]].def = 5
  /\ model.params = <<2, 5>>

\* C16: right after construction the fit flag of every slot is "fixed",
\* whatever flag the slot's spec declares.
C16_FreshAllFixed ==
  model # NoModel =>
    /\ Len(model.ptypes) = model.total_len
    /\ \A n \in 1 .. model.total_len : model.ptypes[n] = ParamFixed

\* An instance with a scalar slot and a vector component both declared free.
C16_Witness ==
  /\ model # NoModel
  /\ \E n \in 1 .. cls[model.type].sparam_len : SlotSpec(n).ppt = ParamFree
  /\ \E n \in cls[model.type].sparam_len + 1 .. model.total_len :
       SlotSpec(n).ppt = ParamFree

\* C17: no instance exists in which two slots share a name: the construction
\* of one from such a schema fails.
C17_SharedNameFailsConstruct ==
  model # NoModel =>
    \A a, b \in 1 .. model.total_len :
      a # b => model.sparams[a].name # model.sparams[b].name

\* C20: no instance exists of a type whose schema check_params_info has not
\* passed.
C20_NoInstanceFromUnclosed ==
  model # NoModel => cpc[model.type] = "closed"

(***************************************************************************)
(* Properties of repeated add_params (SpecAgain).                          *)
(***************************************************************************)
\* C19: once add_params has been called for a type, a second call fails: no
\* step of that class_init changes the parent counts, the slot counts or the
\* sizes of the slot arrays again.
C19_SecondAddParamsFails ==
  [][\A L \in Levels :
       cpc[L] = "added" =>
         /\ cls'[L].parent_sparam_len = cls[L].parent_sparam_len
         /\ cls'[L].parent_vparam_len = cls[L].parent_vparam_len
         /\ cls'[L].sparam_len = cls[L].sparam_len
         /\ cls'[L].vparam_len = cls[L].vparam_len
         /\ Len(SArr(cls[L]))' = Len(SArr(cls[L]))
         /\ Len(VArr(cls[L]))' = Len(VArr(cls[L]))]_vars

(***************************************************************************)
(* Properties of the calls on an instance (SpecUse, SpecNames).            *)
(***************************************************************************)
\* C11: params_valid_bounds returns TRUE exactly when every slot's value in
\* the original vector lies between the slot's lower and upper bound.
C11_ValidBoundsIffInBounds ==
  last.op = "valid_bounds" =>
    LET mo == inst[last.m]
    IN  last.result <=>
          \A n \in 1 .. mo.total_len :
            /\ mo.sparams[n].lb <= vec[mo.params].data[n]
            /\ vec[mo.params].data[n] <= mo.sparams[n].ub

\* Whether a name is a key of the instance's table, of a reparam's table.
InSchemaTable(mo, name) == \E e \in mo.sparams_name_id : e.name = name
InReparamTable(mo, name) ==
  mo.reparam # 0 /\ \E e \in rep[mo.reparam].sparams_name_id : e.name = name

\* C12: without a reparam, a lookup of the name of slot i finds index i, and
\* param_get_by_name of it returns the value param_get (i) returns.
C12_NameRoundTrip ==
  (last.op \in {"index_from_name", "get_by_name"} /\ inst[last.m].reparam = 0) =>
    LET mo == inst[last.m]
    IN  \A n \in 1 .. mo.total_len :
          mo.sparams[n].name = last.name =>
            /\ last.op = "index_from_name" => last.found /\ last.i = n - 1
            /\ last.op = "get_by_name" => last.value = <<ParamGet(mo, n - 1)>>

\* C13: with a reparam attached, a name of the reparam's table is found
\* there; a name found only in the instance's table ends in a fatal error
\* when the reparam holds a descriptor for its index and is found at that
\* index when it holds none.
C13_ReparamLookupOrder ==
  (last.op = "index_from_name" /\ inst[last.m].reparam # 0) =>
    LET mo == inst[last.m]
        r == mo.reparam
    IN  IF InReparamTable(mo, last.name)
          THEN /\ err = NoErr
               /\ last.found
               /\ [name |-> last.name, index |-> last.i] \in rep[r].sparams_name_id
        ELSE IF InSchemaTable(mo, last.name)
          THEN LET i == (CHOOSE e \in mo.sparams_name_id : e.name = last.name).index
               IN  IF rep[r].sparams[i + 1] # << >>
                     THEN err.kind = "param_renamed" /\ ~last.found
                     ELSE err = NoErr /\ last.found /\ last.i = i
        ELSE TRUE

\* The name of a slot the attached reparam renamed is looked up.
C13_Witness ==
  /\ last.op = "index_from_name"
  /\ inst[last.m].reparam # 0
  /\ ~InReparamTable(inst[last.m], last.name)
  /\ InSchemaTable(inst[last.m], last.name)
  /\ err.kind = "param_renamed"
  /\ inst[last.m].total_len = 2
  /\ rep[inst[last.m].reparam].sparams[2] = << >>

\* C14: a lookup changes nothing of the instance, and the lookup of a name
\* that is in neither table returns not found with index -1, without a
\* fatal error, with and without a reparam.
C14_UnknownNameNotFound ==
  [][last'.op = "index_from_name" =>
       /\ inst' = inst /\ vec' = vec /\ rep' = rep
       /\ (~InSchemaTable(inst[last'.m], last'.name) /\ ~InReparamTable(inst[last'.m], last'.name))
            => (~last'.found /\ last'.i = -1 /\ err' = NoErr)]_vars

C14_Witness ==
  /\ last.op = "index_from_name"
  /\ inst[last.m].reparam # 0
  /\ rep[inst[last.m].reparam].sparams_name_id # {}
  /\ inst[last.m].total_len = 2
  /\ last.name = <<"zz">>
  /\ ~last.found
  /\ last.i = -1
  /\ err = NoErr

\* C18: params_get_all right after params_set_vector (v) returns a vector
\* equal to v in storage of its own, and a later params_set_vector leaves
\* the returned vector as it was.
C18_SetVectorGetAll ==
  [][/\ (last'.op = "get_all" /\ last'.after_set) =>
          /\ vec'[last'.ret].data = last'.v
          /\ last'.ret \notin {inst'[last'.m].p, inst'[last'.m].params}
     /\ (last'.op = "set_vector" /\ vec[UseRet].ref > 0) => vec'[UseRet] = vec[UseRet]]_vars

\* A write that follows a params_get_all which returned what was set before.
C18_Witness ==
  /\ last.op = "set_vector"
  /\ vec[UseRet].ref > 0
  /\ vec[UseRet].data = <<-2, 4>>
  /\ last.v = <<4, -2>>
  /\ inst[last.m].reparam # 0

(***************************************************************************)
(* Properties of set_reparam's checks and references (SpecInst).           *)
(***************************************************************************)
\* C21: a reparam made for another length than the instance's total_len is
\* never the instance's attached reparam: set_reparam aborts before it.
C21_MismatchNeverAttached ==
  \A m \in DOMAIN inst :
    inst[m].reparam # 0 => rep[inst[m].reparam].length = inst[m].total_len

(***************************************************************************)
(* Layout of a constructed instance (Spec).                                *)
(***************************************************************************)
\* The slots (1-based) of vector parameter k of the instance.
Block(k) ==
  { n \in 1 .. MaxSlots * 2 + 2 :
      model.vparam_pos[k] < n /\ n <= model.vparam_pos[k] + model.vparam_len[k] }

\* C26: in a constructed instance the scalars take the first sparam_len
\* indices, vector parameter k the block that starts at sparam_len plus the
\* lengths of the vector parameters before it; the scalar range and the
\* blocks are pairwise disjoint and cover exactly the total_len indices, and
\* every index has a descriptor (for a scalar, its class descriptor's copy)
\* and a fit flag.
C26_ContiguousLayout ==
  model # NoModel =>
    LET c == cls[model.type]
        S == 1 .. c.sparam_len
        K == 1 .. c.vparam_len
    IN  /\ \A k \in K :
             model.vparam_pos[k] = c.sparam_len + SumSeq(SubSeq(model.vparam_len, 1, k - 1))
        /\ \A k \in K : Block(k) \cap S = {}
        /\ \A j, k \in K : j # k => Block(j) \cap Block(k) = {}
        /\ S \cup UNION { Block(k) : k \in K } = 1 .. model.total_len
        /\ DOMAIN model.sparams = 1 .. model.total_len
        /\ DOMAIN model.ptypes = 1 .. model.total_len
        /\ DOMAIN model.params = 1 .. model.total_len
        /\ \A n \in S : model.sparams[n] = sobj[SArr(c)[n]]
        /\ \A n \in 1 .. model.total_len : model.ptypes[n] \in {ParamFree, ParamFixed}

\* An instance of the child type with two vector parameters of lengths 2
\* and 1, the first inherited.
C26_Witness ==
  /\ model # NoModel
  /\ model.type = 2
  /\ cls[2].parent_vparam_len = 1
  /\ model.vparam_len = <<2, 1>>
  /\ model.vparam_pos = <<0, 2>>
  /\ model.total_len = 3

(***************************************************************************)
(* References held across set_reparam calls (SpecInst).                    *)
(***************************************************************************)
\* The references the live objects hold on vector v: one per instance whose
\* params it is, one per instance whose p it is, one per live reparam whose
\* new_params it is.
RefsHeld(v) ==
  Cardinality({m \in DOMAIN inst : inst[m].params = v})
    + Cardinality({m \in DOMAIN inst : inst[m].p = v})
    + Cardinality({r \in DOMAIN rep : rep[r].ref > 0 /\ rep[r].new_params = v})

\* C27: while the process runs, every vector's reference count is the
\* number of references the instances and the live reparams hold on it: an
\* instance holds one on params and one on p and no other, so the
\* new_params of a detached reparam is released with the reparam.
C27_InstanceHoldsOnlyParamsAndP ==
  Running => \A v \in DOMAIN vec : vec[v].ref = RefsHeld(v)

\* C28: a set_reparam (m, T) on an instance whose reparam is T already
\* never frees T: the call does not touch freed storage, and T is attached
\* and has the reference count it had before.
C28_ReattachKeepsAlive ==
  [][/\ err'.kind \notin {"use_after_free", "undefined"}
     /\ (last'.op = "set_reparam" /\ last'.had = last'.reparam) =>
          /\ inst'[last'.m].reparam = last'.reparam
          /\ rep'[last'.reparam].ref > 0
          /\ rep'[last'.reparam].ref = rep[last'.reparam].ref]_vars

(***************************************************************************)
(* Properties of the property requests on an instance (SpecProp).          *)
(***************************************************************************)
PropertyOps == {"get_property", "set_property"}
ParamKinds == {"sparam", "vparam", "vparam_len", "sparam_fit", "vparam_fit"}

\* C22: a set_property of a vector parameter with a value of another length
\* than the instance holds for it ends in a fatal error and leaves every
\* element of the original vector as it was.
C22_VParamWriteLengthChecked ==
  [][(/\ last'.op = "set_property"
      /\ last'.kind = "vparam"
      /\ Len(last'.value) # model.vparam_len[last'.index + 1]) =>
       /\ err'.kind = "vparam_length"
       /\ model'.params = model.params]_vars

\* A value of one component written to a vector parameter of two, in an
\* instance whose vector was written before.
C22_Witness ==
  /\ last.op = "set_property"
  /\ last.kind = "vparam"
  /\ last.value = <<9>>
  /\ model.vparam_len[last.index + 1] = 2
  /\ err.kind = "vparam_length"
  /\ \E n \in DOMAIN model.params : model.params[n] = 9
  /\ \E n \in DOMAIN model.params : model.params[n] # 9

\* C23: a request whose id lies in none of the five regions of the level it
\* was dispatched to is resolved at an ancestor level and ends in no fatal
\* error.
C23_OutsideRegionsRedispatched ==
  (last.op \in PropertyOps /\ last.kind = "not_reached") =>
    /\ err = NoErr
    /\ last.resolved # 0

\* C29: a request with an id below nonparam_prop_len, at a level that has
\* no handler for its non-parameter properties, is not resolved as a
\* parameter value, length or fit flag.
C29_NonparamIdNeverParam ==
  (/\ last.op \in PropertyOps
   /\ ULess(last.id, cls[last.level].nonparam_prop_len)
   /\ ~cls[last.level].class_property) =>
    last.kind \notin ParamKinds

(***************************************************************************)
(* Properties of the fit state (SpecFit).                                  *)
(***************************************************************************)
\* C30: after ncm_fit_state_set_ls (fstate, f, J) the stored residuals are
\* f, the stored Jacobian is J and the stored gradient is 2 J^T f for that
\* same J; the call is made on a least-squares state only.
C30_SetLsGradientOfGivenJ ==
  last.op = "set_ls" =>
    /\ fstate.is_least_squares
    /\ fstate.ls_f = last.f
    /\ fstate.ls_J = last.J
    /\ fstate.dm2lnL = DgemvTrans(2, last.J, last.f)

(***************************************************************************)
(* Properties of the matrices and their views (SpecMat).                   *)
(***************************************************************************)
\* C24: a set_from_variant of an "aad" variant into a matrix that is not
\* 0x0 and has another shape than the variant returns to its caller: it
\* does not end the process.
C24_ShapeMismatchReported ==
  (/\ last.op = "set_from_variant"
   /\ last.var.aad
   /\ last.was # <<0, 0>>
   /\ last.was # <<Len(last.var.rows), Len(last.var.rows[1])>>) =>
    err = NoErr

\* The live views of object k.
ViewsOf(k) == { v \in DOMAIN mat : mat[v].ref > 0 /\ mat[v].pdata = k }

\* C25: a live view (submatrix, row or column) has a live parent and points
\* into storage that has not been freed; an object's reference count is the
\* references its callers own plus one per live view of it; storage is
\* freed only by the finalizer of the matrix that owns it.
C25_ViewsKeepParentAlive ==
  \A k \in DOMAIN mat :
    /\ (mat[k].ref > 0 /\ mat[k].pdata # 0) =>
         /\ mat[mat[k].pdata].ref > 0
         /\ mat[mat[k].root].data = "live"
    /\ mat[k].ref = mat[k].held + Cardinality(ViewsOf(k))
    /\ mat[k].data = "freed" => (mat[k].ref = 0 /\ mat[k].type = "slice")
    /\ (mat[k].ref = 0 /\ mat[k].kind # "none") => mat[k].pdata = 0

\* A row of a submatrix is alive after the callers released the submatrix
\* and the matrix it was taken of.
C25_Witness ==
  /\ mat[1].type = "slice" /\ mat[1].held = 0 /\ mat[1].ref = 1
  /\ mat[2].type = "derived" /\ mat[2].kind = "matrix" /\ mat[2].pdata = 1
  /\ mat[2].held = 0 /\ mat[2].ref = 1
  /\ mat[3].kind = "vector" /\ mat[3].pdata = 2 /\ mat[3].held = 1
  /\ last.op = "matrix_free"
====
